---- MODULE Spec2Model ----
(***************************************************************************)
(* MGSIM read simulation (MGSIM/SimReads.py, MGSIM/Commands/Reads.py).     *)
(*                                                                         *)
(* The model follows one session: the two tables are joined into the       *)
(* sample_taxon list (sample_taxon_list), and then one or more sim_*       *)
(* calls (sim_illumina, sim_pacbio, sim_nanopore) run on that same list.   *)
(* Each call computes the coverage value of every record, dispatches one   *)
(* external simulator invocation per record (map in debug mode,            *)
(* multiprocessing.Pool.map otherwise), merges the per-taxon read files    *)
(* into per-sample files and removes the scratch tree.                     *)
(*                                                                         *)
(* Python floats are modelled as exact rationals [num, den] in lowest      *)
(* terms; a list index x[k] of the source is index k+1 here.               *)
(***************************************************************************)
EXTENDS Integers, Sequences, FiniteSets, TLC

(* ---- bounds of the model ---- *)
MaxAbund == 3        \* rows of the abundance table
MaxGenomes == 2      \* rows of the genome table
MaxProc == 2         \* nproc of a call
MaxReads == 2        \* reads the external simulator writes to one file

Samples == {"s1", "s2"}
Taxa == {"t1", "t2"}
GenomeTaxa == {"t1", "t2", "t3"}
GenomeSizes == {0, 5000, 1000000}
Abundances == {20, 50, 100}
Depths == {1000, 100000}
Families == {"illumina", "pacbio", "nanopore"}

None == "None"

(* ---- rationals (Python float arithmetic, exact) ---- *)
RECURSIVE GCD(_, _)
GCD(a, b) == IF b = 0 THEN a ELSE GCD(b, a % b)

Rat(n, d) == LET g == GCD(n, d) IN [num |-> n \div g, den |-> d \div g]

RatMul(r, k) == LET g == GCD(k, r.den) IN Rat(r.num * (k \div g), r.den \div g)

RatDiv(r, k) == LET g == GCD(r.num, k) IN Rat(r.num \div g, r.den * (k \div g))

\* int(float): truncation of a non-negative value
IntOf(r) == r.num \div r.den

(* ---- sequences ---- *)
RECURSIVE Flatten(_)
Flatten(ss) == IF ss = <<>> THEN <<>> ELSE Head(ss) \o Flatten(Tail(ss))

Range(s) == {s[i] : i \in DOMAIN s}

SeqsUpTo(S, n) == UNION {[1..k -> S] : k \in 0..n}

RECURSIVE SeqOfSet(_)
SeqOfSet(S) == IF S = {} THEN <<>>
               ELSE LET m == CHOOSE a \in S : \A b \in S : a <= b
                    IN <<m>> \o SeqOfSet(S \ {m})

(* ---- the tables and their join ---- *)
\* a row of load_genome_table's frame: Taxon, Fasta, Genome_size
GenomeRow(t, f, g) == [Taxon |-> t, Fasta |-> f, Genome_size |-> g]

\* a row of load_abund_table's frame: Community, Taxon, Perc_rel_abund
AbundRow(c, t, p) == [Community |-> c, Taxon |-> t, Perc_rel_abund |-> p]

\* the characters of the class [()\/:;, ] ; a name is a sequence of characters
SpecialChars == {"(", ")", "/", ":", ";", ",", " "}

RECURSIVE drop_special(_)
drop_special(x) ==
    IF x # <<>> /\ Head(x) \in SpecialChars THEN drop_special(Tail(x)) ELSE x

\* re.sub(r'[()\/:;, ]+', '_', x): each run of special characters becomes one '_'
RECURSIVE tidy_taxon_names(_)
tidy_taxon_names(x) ==
    IF x = <<>> THEN <<>>
    ELSE IF Head(x) \in SpecialChars
         THEN <<"_">> \o tidy_taxon_names(drop_special(x))
         ELSE <<Head(x)>> \o tidy_taxon_names(Tail(x))

\* load_genome_table, load_abund_table: the file's rows with the Taxon tidied
load_genome_table(rows) ==
    [k \in DOMAIN rows |-> [rows[k] EXCEPT !.Taxon = tidy_taxon_names(@)]]

load_abund_table(rows) ==
    [k \in DOMAIN rows |-> [rows[k] EXCEPT !.Taxon = tidy_taxon_names(@)]]

\* faulty variant: how='left', an abundance row without a genome is kept
merge_row_left(a, gt) ==
    LET m == SelectSeq(gt, LAMBDA g : g.Taxon = a.Taxon)
    IN IF m = <<>> THEN << <<a.Community, a.Taxon, 1, "nan", a.Perc_rel_abund>> >>
       ELSE [k \in DOMAIN m |-> <<a.Community, a.Taxon, m[k].Genome_size,
                                   m[k].Fasta, a.Perc_rel_abund>>]

\* the joined rows of one abundance row, in the genome table's order
RECURSIVE merge_row(_, _)
merge_row(a, gt) ==
    IF gt = <<>> THEN <<>>
    ELSE (IF Head(gt).Taxon = a.Taxon
          THEN << <<a.Community, a.Taxon, Head(gt).Genome_size,
                    Head(gt).Fasta, a.Perc_rel_abund>> >>
          ELSE <<>>) \o merge_row(a, Tail(gt))

\* abund_table.merge(genome_table, on=['Taxon']), then one list per row
RECURSIVE sample_taxon_list(_, _)
sample_taxon_list(gt, at) ==
    IF at = <<>> THEN <<>>
    ELSE merge_row(Head(at), gt) \o sample_taxon_list(gt, Tail(at))

(* ---- the command-line entry point ---- *)
DefaultArtLen == 150
DefaultArtMflen == 200
DefaultArtSdev == 10

\* art_params as main() builds it from the parsed options
main_art_params(art_paired, art_len, art_mflen) ==
    LET keys == {"--len", "--sdev", "--seqSys"}
                  \cup (IF art_paired THEN {"--paired"} ELSE {})
                  \cup (IF art_mflen <= 0 THEN {} ELSE {"--mflen"})
    IN [k \in keys |-> CASE k = "--paired" -> 0
                         [] k = "--len" -> art_len
                         [] k = "--mflen" -> art_mflen
                         [] k = "--sdev" -> DefaultArtSdev
                         [] OTHER -> 0]

(* ---- coverage per record ---- *)
\* the try/except KeyError ladder of sim_illumina
paired_of(art_params) ==
    IF "--paired" \in DOMAIN art_params THEN 2
    ELSE IF "--mflen" \in DOMAIN art_params THEN 2
    ELSE 1

\* fold = perc_rel_abund / 100.0 * seq_depth * read_length / genome_size
fold_of(x, seq_depth, art_params) ==
    LET read_length == art_params["--len"] * paired_of(art_params)
    IN RatDiv(RatMul(RatMul(Rat(x[5], 100), seq_depth), read_length), x[3])

\* the loop "calculating fold per genome": appends to each record in place;
\* the float division raises ZeroDivisionError on a genome size of 0
RECURSIVE fold_per_genome(_, _, _, _)
fold_per_genome(st, k, seq_depth, art_params) ==
    IF k > Len(st) THEN [list |-> st, raised |-> None]
    ELSE IF st[k][3] = 0 THEN [list |-> st, raised |-> "ZeroDivisionError"]
    ELSE fold_per_genome(
             [st EXCEPT ![k] = Append(@, fold_of(st[k], seq_depth, art_params))],
             k + 1, seq_depth, art_params)

\* int(perc_rel_abund / 100.0 * seq_depth)
n_reads_of(x, seq_depth) == Rat(IntOf(RatMul(Rat(x[5], 100), seq_depth)), 1)

\* the loop "calculating fraction of total reads to simulate"
fraction_of_reads(st, seq_depth) ==
    [list |-> [k \in DOMAIN st |-> Append(st[k], n_reads_of(st[k], seq_depth))],
     raised |-> None]

(* ---- the external simulators ---- *)
Exes == {"art_illumina", "simlord", "nanosim-h"}

exe_of(family) == CASE family = "illumina" -> "art_illumina"
                    [] family = "pacbio" -> "simlord"
                    [] OTHER -> "nanosim-h"

\* distutils.spawn.find_executable: the path of exe, or None when PATH has none
find_executable(exe, path) == IF exe \in path THEN exe ELSE None

\* the guard of "check that simulator exists": find_executable(exe) == ''
exe_not_found(exe, path) == find_executable(exe, path) = ""

\* os.path.join(temp_dir, community, taxon), relative to temp_dir
out_dir_of(x) == <<x[1], x[2]>>

\* the files a simulator may leave in its output directory
OutNames(family) == CASE family = "illumina" -> {"illumina.fq", "illumina1.fq", "illumina2.fq"}
                      [] family = "pacbio" -> {"pacbio.fastq"}
                      [] OTHER -> {"nanopore.fa"}

\* the command line: executable, coverage argument, input and output prefix
sim_art_cmd(x) ==
    [exe |-> "art_illumina", cov |-> x[6], input |-> x[4], out |-> out_dir_of(x)]

sim_simlord_cmd(x) ==
    [exe |-> "simlord", cov |-> Rat(IntOf(x[6]), 1), input |-> x[4], out |-> out_dir_of(x)]

sim_nanosim_cmd(x) ==
    [exe |-> "nanosim-h", cov |-> Rat(IntOf(x[6]), 1), input |-> x[4], out |-> out_dir_of(x)]

cmd_of(family, x) == CASE family = "illumina" -> sim_art_cmd(x)
                       [] family = "pacbio" -> sim_simlord_cmd(x)
                       [] OTHER -> sim_nanosim_cmd(x)

Returned(val) == [st |-> "ok", val |-> val, exc |-> None]
Raised(e) == [st |-> "raised", val |-> <<>>, exc |-> e]
Pending == [st |-> "pending", val |-> <<>>, exc |-> None]
Running == [st |-> "running", val |-> <<>>, exc |-> None]

\* "check that files have been created", files: the files that exist
sim_art_files(x, files) ==
    LET R0_file == Append(out_dir_of(x), "illumina.fq")
        R1_file == Append(out_dir_of(x), "illumina1.fq")
        R2_file == Append(out_dir_of(x), "illumina2.fq")
    IN IF R1_file \in files /\ R2_file \in files
       THEN Returned(<<x[1], R1_file, R2_file>>)
       ELSE IF R0_file \in files THEN Returned(<<x[1], R0_file>>)
       ELSE Raised("ValueError")

sim_simlord_files(x, files) ==
    LET R0_file == Append(out_dir_of(x), "pacbio.fastq")
    IN IF R0_file \in files THEN Returned(<<x[1], R0_file>>)
       ELSE Raised("ValueError")

sim_nanosim_files(x, files) ==
    LET R0_file == Append(out_dir_of(x), "nanopore.fa")
    IN IF R0_file \in files THEN Returned(<<x[1], R0_file>>)
       ELSE Raised("ValueError")

\* faulty variant: subprocess.run without check=True
sim_result_unchecked(family, x, exit, files) ==
    CASE family = "illumina" -> sim_art_files(x, files)
      [] family = "pacbio" -> sim_simlord_files(x, files)
      [] OTHER -> sim_nanosim_files(x, files)

\* subprocess.run(check=True) and the check of the output files
sim_result(family, x, exit, files) ==
    IF exit # 0 THEN Raised("CalledProcessError")
    ELSE CASE family = "illumina" -> sim_art_files(x, files)
           [] family = "pacbio" -> sim_simlord_files(x, files)
           [] OTHER -> sim_nanosim_files(x, files)

(* ---- Pool.map ---- *)
RECURSIVE Chunked(_, _, _)
Chunked(lo, n, size) ==
    IF lo > n THEN <<>>
    ELSE LET hi == IF lo + size - 1 > n THEN n ELSE lo + size - 1
         IN <<[k \in 1..(hi - lo + 1) |-> lo + k - 1]>> \o Chunked(hi + 1, n, size)

\* Pool.map: chunksize, extra = divmod(len(iterable), len(pool) * 4)
chunksize_of(n, nproc) ==
    (n \div (nproc * 4)) + (IF n % (nproc * 4) # 0 THEN 1 ELSE 0)

\* the tasks of one map over n items: the builtin map run by list() is one
\* sequential pass that the first exception ends; Pool.map cuts chunks
tasks_of(n, debug, nproc) ==
    IF n = 0 THEN <<>>
    ELSE IF debug THEN Chunked(1, n, n)
    ELSE Chunked(1, n, chunksize_of(n, nproc))

\* faulty variant: the chunk goes on after an exception
rest_of_chunk_kept(r, rest) == rest

\* a task is list(map(func, chunk)): an exception ends the chunk, the records
\* after it are never run
rest_of_chunk(r, rest) == IF r.st = "raised" THEN <<>> ELSE rest

(* ---- merging ---- *)
Without(f, k) == [j \in DOMAIN f \ {k} |-> f[j]]
With(f, k, v) == [j \in DOMAIN f \cup {k} |-> IF j = k THEN v ELSE f[j]]

\* os.path.split(os.path.split(in_file)[0])[1]
taxon_of_path(in_file) == in_file[Len(in_file) - 1]

\* faulty variant: the index counts from 1
renamed_from_one(in_file, n) == [i \in 1..n |-> <<taxon_of_path(in_file), i>>]

\* the records of in_file renamed '{taxon}__SEQ{i}': the pair <<taxon, i>>
renamed(in_file, n) == [i \in 1..n |-> <<taxon_of_path(in_file), i - 1>>]

\* faulty variant: the source file is removed before its records are written
file_ops_remove_first(dest, in_file, n) ==
    <<[op |-> "remove", file |-> in_file, rec |-> <<>>]>>
        \o [i \in 1..n |-> [op |-> "write", file |-> dest, rec |-> renamed(in_file, n)[i]]]

\* the file operations of one turn of the loop of _write_reads, in order:
\* SeqIO.write of each renamed record to the destination, then os.remove(in_file)
file_ops(dest, in_file, n) ==
    [i \in 1..n |-> [op |-> "write", file |-> dest, rec |-> renamed(in_file, n)[i]]]
        \o <<[op |-> "remove", file |-> in_file, rec |-> <<>>]>>

\* _write_reads: fs holds the scratch files (tmp), the destination files
\* (out), the source files read so far (log) and the file operations (ops)
RECURSIVE write_reads(_, _, _)
write_reads(dest, read_files, fs) ==
    IF read_files = <<>> THEN [fs |-> fs, raised |-> None]
    ELSE LET in_file == Head(read_files)
         IN IF in_file \notin DOMAIN fs.tmp
            THEN [fs |-> fs, raised |-> "FileNotFoundError"]
            ELSE write_reads(dest, Tail(read_files),
                     [fs EXCEPT !.out = With(@, dest, @[dest] \o renamed(in_file, fs.tmp[in_file])),
                                !.log = Append(@, [dest |-> dest, src |-> in_file,
                                                   n |-> fs.tmp[in_file]]),
                                !.ops = @ \o file_ops(dest, in_file, fs.tmp[in_file]),
                                !.tmp = Without(@, in_file)])

\* _combine_reads
combine_reads(read_files, output_dir, output_file, read_type, gzip_out, fs) ==
    LET suffix == IF read_type = "fastq" THEN ".fq" ELSE ".fa"
        dest == output_dir \o <<output_file, suffix>>
                    \o (IF gzip_out THEN <<".gz">> ELSE <<>>)
        w == write_reads(dest, read_files, [fs EXCEPT !.out = With(@, dest, <<>>)])
    IN [fs |-> w.fs, raised |-> w.raised, ret |-> dest]

\* combine_reads_by_sample
combine_reads_by_sample(sample, fq_files, file_prefix, read_type, gzip_out, fs) ==
    LET mine == SelectSeq(fq_files, LAMBDA x : x[1] = sample)
        R1_files == [k \in DOMAIN mine |-> mine[k][2]]
        no_R2 == \E k \in DOMAIN mine : Len(mine[k]) < 3
        R2_files == [k \in DOMAIN mine |-> mine[k][3]]
        output_dir == <<file_prefix, sample>>
        fs1 == [fs EXCEPT !.dirs = @ \cup {<<"out">> \o output_dir}]
        r1 == combine_reads(R1_files, output_dir, "R1", read_type, gzip_out, fs1)
        r2 == combine_reads(R2_files, output_dir, "R2", read_type, gzip_out, r1.fs)
    IN IF r1.raised # None THEN [fs |-> r1.fs, res |-> Raised(r1.raised)]
       ELSE IF no_R2 THEN [fs |-> r1.fs, res |-> Returned(<<r1.ret>>)]
       ELSE IF r2.raised # None THEN [fs |-> r2.fs, res |-> Raised(r2.raised)]
       ELSE [fs |-> r2.fs, res |-> Returned(<<r1.ret, r2.ret>>)]

read_type_of(family) == IF family = "nanopore" THEN "fasta" ELSE "fastq"

(* ---- state ---- *)
VARIABLES
    genome_table,   \* load_genome_table's frame, a sequence of rows
    abund_table,    \* load_abund_table's frame, a sequence of rows
    path,           \* the executables PATH resolves
    calls,          \* the sim_* calls of the session, in order
    ncall,          \* calls started so far; calls[ncall] is the current one
    pc,             \* "main", "ready", "dispatch", "merge", "done", "failed"
    sample_taxon,   \* the [sample,taxon] list of lists, appended to in place
    queue,          \* chunks of the running map no worker has taken yet
    wk,             \* per worker: the rest of the chunk it is working on
    run,            \* per worker: the record whose simulator it waits for, or 0
    returncode,     \* per record: the exit status of its simulator, -1 before it exits
    fq_files,       \* per record: the outcome of its sim_art/sim_simlord/sim_nanosim
    comms,          \* list(set(...)) of the communities, in its arbitrary order
    res,            \* per community: the outcome of combine_reads_by_sample
    exc,            \* the exception the call raised, or None
    spawned,        \* the command lines handed to subprocess.run in this call
    fs              \* directories, scratch files, destination files, reads log, file operations

vars == <<genome_table, abund_table, path, calls, ncall, pc, sample_taxon,
          queue, wk, run, returncode, fq_files, comms, res, exc, spawned, fs>>

inputs == <<genome_table, abund_table, path, calls>>

Workers == 1..MaxProc

Call == calls[ncall]

\* the processes that run tasks: the caller itself in debug mode, else Pool(nproc)
Procs == IF Call.debug THEN {1} ELSE 1..Call.nproc

EmptyFs == [dirs |-> {}, tmp |-> <<>>, out |-> <<>>, log |-> <<>>, ops |-> <<>>]

Idle == [w \in Workers |-> <<>>]
NoRun == [w \in Workers |-> 0]

FirstExc(e) == IF exc = None THEN e ELSE exc

(* ---- Reads.main: the join ---- *)
Main ==
    /\ pc = "main"
    /\ sample_taxon' = sample_taxon_list(genome_table, abund_table)
    /\ pc' = "ready"
    /\ UNCHANGED <<inputs, ncall, queue, wk, run, returncode, fq_files, comms, res,
                   exc, spawned, fs>>

(* ---- sim_illumina / sim_pacbio / sim_nanopore, up to the map ---- *)
coverage_of(c, st) ==
    IF c.family = "illumina" THEN fold_per_genome(st, 1, c.seq_depth, c.params)
    ELSE fraction_of_reads(st, c.seq_depth)

SimCall ==
    /\ pc \in {"ready", "done", "failed"}
    /\ ncall < Len(calls)
    /\ ncall' = ncall + 1
    /\ LET c == calls[ncall + 1]
           missing == exe_not_found(exe_of(c.family), path)
           cov == coverage_of(c, sample_taxon)
           n == Len(sample_taxon)
       IN /\ sample_taxon' = IF missing THEN sample_taxon ELSE cov.list
          /\ exc' = IF missing THEN "IOError" ELSE cov.raised
          /\ pc' = IF exc' # None THEN "failed" ELSE "dispatch"
          /\ fs' = IF exc' # None THEN [fs EXCEPT !.log = <<>>, !.ops = <<>>]
                   ELSE [fs EXCEPT !.log = <<>>, !.ops = <<>>,
                                   !.dirs = @ \cup {<<"tmp">>, <<"out", c.family>>}]
          /\ queue' = IF exc' # None THEN <<>> ELSE tasks_of(n, c.debug, c.nproc)
          /\ fq_files' = [i \in 1..n |-> Pending]
          /\ returncode' = [i \in 1..n |-> -1]
    /\ wk' = Idle
    /\ run' = NoRun
    /\ comms' = <<>>
    /\ res' = <<>>
    /\ spawned' = {}
    /\ UNCHANGED inputs

(* ---- the map over sample_taxon ---- *)
\* a process takes its next record and hands the command to subprocess.run
Start(w) ==
    /\ pc = "dispatch"
    /\ w \in Procs
    /\ run[w] = 0
    /\ wk[w] # <<>> \/ queue # <<>>
    /\ LET chunk == IF wk[w] # <<>> THEN wk[w] ELSE Head(queue)
           i == Head(chunk)
           x == sample_taxon[i]
       IN /\ run' = [run EXCEPT ![w] = i]
          /\ wk' = [wk EXCEPT ![w] = Tail(chunk)]
          /\ queue' = IF wk[w] # <<>> THEN queue ELSE Tail(queue)
          /\ fq_files' = [fq_files EXCEPT ![i] = Running]
          /\ fs' = [fs EXCEPT !.dirs = @ \cup {<<"tmp">> \o out_dir_of(x)}]
          /\ spawned' = spawned \cup {[task |-> i] @@ cmd_of(Call.family, x)}
    /\ UNCHANGED <<inputs, ncall, pc, sample_taxon, returncode, comms, res, exc>>

\* what the simulator leaves in its output directory when it exits with 0
MadeSets(family) ==
    IF family = "illumina"
    THEN {{}, {"illumina.fq"}, {"illumina1.fq", "illumina2.fq"}, {"illumina1.fq"}}
    ELSE {{}, OutNames(family)}

\* the simulator exits; the rest of sim_art/sim_simlord/sim_nanosim runs
Finish(w) ==
    /\ pc = "dispatch"
    /\ run[w] # 0
    /\ LET i == run[w]
           x == sample_taxon[i]
           resolvable == exe_of(Call.family) \in path
       IN \E exit \in {0, 1}, made \in MadeSets(Call.family), n \in 1..MaxReads :
             /\ exit = 0 => resolvable
             /\ exit # 0 => made = {} /\ n = 1
             /\ LET tmp == [f \in DOMAIN fs.tmp \cup {Append(out_dir_of(x), m) : m \in made} |->
                               IF f \in {Append(out_dir_of(x), m) : m \in made}
                               THEN n ELSE fs.tmp[f]]
                    r == sim_result(Call.family, x, exit, DOMAIN tmp)
                IN /\ fs' = [fs EXCEPT !.tmp = tmp]
                   /\ fq_files' = [fq_files EXCEPT ![i] = r]
                   /\ returncode' = [returncode EXCEPT ![i] = exit]
                   /\ wk' = [wk EXCEPT ![w] = rest_of_chunk(r, @)]
                   /\ exc' = IF r.st = "raised" THEN FirstExc(r.exc) ELSE exc
    /\ run' = [run EXCEPT ![w] = 0]
    /\ UNCHANGED <<inputs, ncall, pc, sample_taxon, queue, comms, res, spawned>>

MapDone == queue = <<>> /\ wk = Idle /\ run = NoRun

\* list(fq_files): the exception of the map is raised, or the merge is set up
DispatchJoin ==
    /\ pc = "dispatch"
    /\ MapDone
    /\ IF exc # None
       THEN /\ pc' = "failed"
            /\ UNCHANGED <<comms, res, queue>>
       ELSE \E order \in {o \in SeqsUpTo({sample_taxon[i][1] : i \in DOMAIN sample_taxon},
                                         Len(sample_taxon)) :
                            /\ Range(o) = {sample_taxon[i][1] : i \in DOMAIN sample_taxon}
                            /\ Len(o) = Cardinality(Range(o))} :
            /\ comms' = order
            /\ res' = [j \in DOMAIN order |-> Pending]
            /\ queue' = tasks_of(Len(order), Call.debug, Call.nproc)
            /\ pc' = "merge"
    /\ UNCHANGED <<inputs, ncall, sample_taxon, wk, run, returncode, fq_files, exc,
                   spawned, fs>>

(* ---- the map over comms ---- *)
Combine(w) ==
    /\ pc = "merge"
    /\ w \in Procs
    /\ wk[w] # <<>> \/ queue # <<>>
    /\ LET chunk == IF wk[w] # <<>> THEN wk[w] ELSE Head(queue)
           j == Head(chunk)
           r == combine_reads_by_sample(comms[j],
                    [i \in DOMAIN fq_files |-> fq_files[i].val],
                    Call.family, read_type_of(Call.family), Call.gzip_out, fs)
       IN /\ fs' = r.fs
          /\ res' = [res EXCEPT ![j] = r.res]
          /\ wk' = [wk EXCEPT ![w] = rest_of_chunk(r.res, Tail(chunk))]
          /\ queue' = IF wk[w] # <<>> THEN queue ELSE Tail(queue)
          /\ exc' = IF r.res.st = "raised" THEN FirstExc(r.res.exc) ELSE exc
    /\ UNCHANGED <<inputs, ncall, pc, sample_taxon, run, returncode, fq_files, comms,
                   spawned>>

\* shutil.rmtree(temp_dir)
rmtree(f) == [f EXCEPT !.dirs = {d \in @ : d[1] # "tmp"}, !.tmp = <<>>]

\* list(res): the exception of the map is raised, or the scratch tree is removed
MergeJoin ==
    /\ pc = "merge"
    /\ MapDone
    /\ IF exc # None
       THEN pc' = "failed" /\ fs' = fs
       ELSE pc' = "done" /\ fs' = rmtree(fs)
    /\ UNCHANGED <<inputs, ncall, sample_taxon, queue, wk, run, returncode, fq_files,
                   comms, res, exc, spawned>>

Next ==
    \/ Main
    \/ SimCall
    \/ \E w \in Workers : Start(w)
    \/ \E w \in Workers : Finish(w)
    \/ DispatchJoin
    \/ \E w \in Workers : Combine(w)
    \/ MergeJoin

(* ---- the inputs of a session ---- *)
Cfg(family, debug, nproc, seq_depth, params, gzip_out) ==
    [family |-> family, debug |-> debug, nproc |-> nproc, seq_depth |-> seq_depth,
     params |-> params, gzip_out |-> gzip_out]

\* art_params of the command line, for each setting of --art-paired, --art-mflen
ArtParams == {main_art_params(p, DefaultArtLen, m) : p \in BOOLEAN, m \in {0, DefaultArtMflen}}

ParamsOf(family) == IF family = "illumina" THEN ArtParams ELSE {<<>>}

Fasta(t) == t

\* tables whose genome sizes and abundances are all alike
PlainGenomes == {GenomeRow(t, Fasta(t), 5000) : t \in GenomeTaxa}
PlainAbunds == {AbundRow(c, t, 100) : c \in Samples, t \in Taxa}

\* every table up to the bounds, one sequential call, no simulator on PATH
InitTables ==
    /\ genome_table \in SeqsUpTo(PlainGenomes, MaxGenomes)
    /\ abund_table \in SeqsUpTo(PlainAbunds, MaxAbund)
    /\ path = {}
    /\ calls \in {<<Cfg(f, TRUE, 1, 1000, p, FALSE)>> :
                    f \in Families,
                    p \in {main_art_params(FALSE, DefaultArtLen, 0), <<>>}}
    /\ Head(calls).params \in ParamsOf(Head(calls).family)

\* the rows I of s, in the order of s
SubSeq_(s, I) == [k \in 1..Cardinality(I) |-> s[SeqOfSet(I)[k]]]

PipelineAbund == <<AbundRow("s1", "t1", 100), AbundRow("s1", "t2", 50),
                   AbundRow("s2", "t1", 20)>>

\* one genome per taxon, the abundance rows of two samples (any of them, or
\* one of them twice), every kind of call
InitPipeline ==
    /\ genome_table = <<GenomeRow("t1", Fasta("t1"), 5000),
                        GenomeRow("t2", Fasta("t2"), 1000000)>>
    /\ abund_table \in {SubSeq_(PipelineAbund, I) : I \in SUBSET DOMAIN PipelineAbund}
                          \cup {<<PipelineAbund[1], PipelineAbund[1]>>}
    /\ path = Exes
    /\ \E f \in Families, d \in BOOLEAN, np \in 1..MaxProc, z \in BOOLEAN :
          \E p \in ParamsOf(f) :
             /\ d => np = 1
             /\ z => f = "pacbio"
             /\ calls = <<Cfg(f, d, np, 1000, p, z)>>

\* one record, every genome size, abundance and depth, after an earlier call or not
InitDepth ==
    /\ \E g \in GenomeSizes : genome_table = <<GenomeRow("t1", Fasta("t1"), g)>>
    /\ \E a \in Abundances : abund_table = <<AbundRow("s1", "t1", a)>>
    /\ path = Exes
    /\ \E f \in Families, sd \in Depths :
          \E p \in ParamsOf(f) :
             \E earlier \in {<<>>,
                             <<Cfg("illumina", TRUE, 1, 1000,
                                   main_art_params(FALSE, DefaultArtLen, 0), FALSE)>>,
                             <<Cfg("pacbio", TRUE, 1, 1000, <<>>, FALSE)>>} :
                calls = earlier \o <<Cfg(f, TRUE, 1, sd, p, FALSE)>>

\* six records on a pool of one process: chunks of two records
InitChunks ==
    /\ genome_table = <<GenomeRow("t1", Fasta("t1"), 5000), GenomeRow("t2", Fasta("t2"), 5000),
                        GenomeRow("t3", Fasta("t3"), 5000)>>
    /\ abund_table = <<AbundRow("s1", "t1", 50), AbundRow("s1", "t2", 20),
                       AbundRow("s1", "t3", 20), AbundRow("s2", "t1", 50),
                       AbundRow("s2", "t2", 50)>>
    /\ path = Exes
    /\ calls = <<Cfg("nanopore", FALSE, 1, 1000, <<>>, FALSE)>>

\* taxon names as the table files spell them
RawNames == {<<"a", " ", "b">>, <<"a", "/", "b">>, <<"a", "_", "b">>,
             <<"a", ",", " ", "b">>, <<"a", "b">>, <<"(", "a", ")", "b">>}

\* table files of two genomes of differently spelled taxa and one abundance
\* row, as the loaders return them; one long-read call, sequential or pooled
InitNames ==
    /\ \E r1, r2 \in RawNames :
          /\ r1 # r2
          /\ genome_table = load_genome_table(<<GenomeRow(r1, Fasta(r1), 5000),
                                                GenomeRow(r2, Fasta(r2), 5000)>>)
    /\ \E r \in RawNames : abund_table = load_abund_table(<<AbundRow("s1", r, 100)>>)
    /\ path = Exes
    /\ \E d \in BOOLEAN :
          calls = <<Cfg("pacbio", d, IF d THEN 1 ELSE MaxProc, 1000, <<>>, FALSE)>>

Init ==
    /\ InitTables \/ InitPipeline \/ InitDepth \/ InitChunks \/ InitNames
    /\ ncall = 0
    /\ pc = "main"
    /\ sample_taxon = <<>>
    /\ queue = <<>>
    /\ wk = Idle
    /\ run = NoRun
    /\ fq_files = <<>>
    /\ returncode = <<>>
    /\ comms = <<>>
    /\ res = <<>>
    /\ exc = None
    /\ spawned = {}
    /\ fs = EmptyFs

Spec == Init /\ [][Next]_vars

TypeOK == pc \in {"main", "ready", "dispatch", "merge", "done", "failed"}

(* ======================= properties ======================= *)

Started == ncall >= 1
Pooled == Started /\ ~Call.debug
RaisedRecords == {i \in DOMAIN fq_files : fq_files[i].st = "raised"}

(* C1: when the executable of the family is not resolvable on PATH, the call
   fails with the executable-not-found error (IOError) before any work: no
   scratch or output directory is created, no process is spawned. *)
C1_ExecutableNotFound ==
    (ncall = 1 /\ exe_of(Call.family) \notin path)
        => /\ pc = "failed"
           /\ exc = "IOError"
           /\ spawned = {}
           /\ fs.dirs = {}

(* C2: when a simulator invocation of the batch exits with a non-zero status,
   its record raises CalledProcessError, the call ends failed with an
   exception of the batch (that one when no other record raised), and the
   merge never starts: no community is merged, no source file is read, in
   debug and in pooled mode alike. *)
C2_NonZeroExitAborts ==
    \A i \in DOMAIN returncode :
        (Started /\ returncode[i] > 0)
            => /\ fq_files[i] = Raised("CalledProcessError")
               /\ pc \in {"dispatch", "failed"}
               /\ exc \in {fq_files[k].exc : k \in RaisedRecords}
               /\ (\A k \in RaisedRecords : returncode[k] > 0) => exc = "CalledProcessError"
               /\ comms = <<>> /\ res = <<>> /\ fs.log = <<>>

\* a pooled call has failed with CalledProcessError raised by a record that is
\* not the first, while another record has returned its files
C2_Witness ==
    /\ Pooled /\ pc = "failed" /\ exc = "CalledProcessError"
    /\ \E i, k \in DOMAIN fq_files :
          /\ i > 1 /\ returncode[i] > 0
          /\ fq_files[k].st = "ok"

(* C3 as stated: in pooled operation, once an invocation of the batch has
   failed, the pool starts no further invocation of that batch. *)
C3_NoStartAfterFailure ==
    [][(Pooled /\ pc = "dispatch" /\ RaisedRecords # {}) => spawned' = spawned]_vars

\* the number of the chunk of record i among n records on nproc processes
ChunkNo(i, n, nproc) ==
    LET q == nproc * 4
        size == IF n % q = 0 THEN n \div q ELSE (n \div q) + 1
    IN (i - 1) \div size

(* C3 as amended: in pooled operation a failed invocation ends its own chunk
   only: the records after it in the same chunk are never started, and the
   merge never starts; the records of other chunks are still started. *)
C3_FailureEndsItsChunk ==
    Pooled =>
        \A i \in RaisedRecords :
            /\ pc \in {"dispatch", "failed"}
            /\ comms = <<>>
            /\ \A j \in DOMAIN fq_files :
                  (j > i /\ ChunkNo(j, Len(fq_files), Call.nproc)
                              = ChunkNo(i, Len(fq_files), Call.nproc))
                      => fq_files[j].st = "pending"

\* on a pool of one process: a record has raised, the record after it in its
\* chunk was never started, and a record of a later chunk has run all the same
C3_Witness ==
    /\ Pooled /\ Call.nproc = 1 /\ pc = "failed"
    /\ \E i, j, k \in DOMAIN fq_files :
          /\ fq_files[i].st = "raised"
          /\ j > i /\ ChunkNo(j, Len(fq_files), 1) = ChunkNo(i, Len(fq_files), 1)
          /\ fq_files[j].st = "pending"
          /\ ChunkNo(k, Len(fq_files), 1) > ChunkNo(i, Len(fq_files), 1)
          /\ fq_files[k].st = "ok"

ValidTables ==
    /\ \A i, j \in DOMAIN genome_table :
          genome_table[i].Taxon = genome_table[j].Taxon => i = j
    /\ \A i, j \in DOMAIN abund_table :
          (/\ abund_table[i].Community = abund_table[j].Community
           /\ abund_table[i].Taxon = abund_table[j].Taxon) => i = j

CoverageComputed ==
    ncall = 1 /\ ~(pc = "failed" /\ exc \in {"IOError", "ZeroDivisionError"})

GenomeTaxaOf == {genome_table[i].Taxon : i \in DOMAIN genome_table}
AbundPairs == {<<abund_table[i].Community, abund_table[i].Taxon>> : i \in DOMAIN abund_table}

(* C4: for tables in which a taxon names one genome and a (sample, taxon)
   pair one abundance, the join followed by the coverage computation of a
   call holds exactly one record, with exactly one coverage value, for every
   pair whose taxon is in both tables, and none for any other pair. *)
C4_OneRecordPerPair ==
    (CoverageComputed /\ ValidTables) =>
        /\ \A i \in DOMAIN sample_taxon :
              /\ <<sample_taxon[i][1], sample_taxon[i][2]>> \in AbundPairs
              /\ sample_taxon[i][2] \in GenomeTaxaOf
              /\ Len(sample_taxon[i]) = 6
        /\ \A pr \in AbundPairs :
              Cardinality({i \in DOMAIN sample_taxon :
                              sample_taxon[i][1] = pr[1] /\ sample_taxon[i][2] = pr[2]})
                  = IF pr[2] \in GenomeTaxaOf THEN 1 ELSE 0

\* valid tables with a joined pair, an abundance whose taxon has no genome and
\* a genome whose taxon has no abundance, after the coverage computation
C4_Witness ==
    /\ CoverageComputed /\ ValidTables
    /\ sample_taxon # <<>>
    /\ \E pr \in AbundPairs : pr[2] \notin GenomeTaxaOf
    /\ \E t \in GenomeTaxaOf : \A pr \in AbundPairs : pr[2] # t

(* C5: in the short-read family the fold coverage passed to art_illumina is
   (abundance / 100) * depth * length * mates / genome size, with 2 mates
   when the run is paired (--paired) and 1 when it is unpaired, also with the
   parameters the command line builds by default. *)
C5_FoldCoverage ==
    (ncall = 1 /\ Call.family = "illumina") =>
        \A s \in spawned :
            LET x == sample_taxon[s.task]
                mate_count == IF "--paired" \in DOMAIN Call.params THEN 2 ELSE 1
            IN s.cov = RatDiv(RatMul(RatMul(Rat(x[5], 100), Call.seq_depth),
                                     Call.params["--len"] * mate_count), x[3])

(* C6: in the long-read families the read count passed to the simulator is
   floor((abundance / 100) * depth) for the depth of that call, also for a
   list an earlier call has processed. *)
C6_ReadCount ==
    (Started /\ Call.family \in {"pacbio", "nanopore"}) =>
        \A s \in spawned :
            s.cov = Rat((sample_taxon[s.task][5] * Call.seq_depth) \div 100, 1)

(* C7: in each family a record whose genome size is 0 makes the call fail
   before any simulator is invoked. *)
C7_ZeroGenomeRejected ==
    (Started /\ \E i \in DOMAIN sample_taxon : sample_taxon[i][3] = 0)
        => /\ pc = "failed"
           /\ exc = "ZeroDivisionError"
           /\ spawned = {}

SourcesOf(d) == SelectSeq(fs.log, LAMBDA e : e.dest = d)

RECURSIVE SumN(_)
SumN(es) == IF es = <<>> THEN 0 ELSE Head(es).n + SumN(Tail(es))

(* C8: a destination file that _combine_reads has returned holds the records
   of its source files, in order: as many records as the source files held
   together, each named by the taxon of its source file and its 0-based
   position in that file, and, the source files being of different taxa, no
   name twice. *)
C8_MergeRoundTrip ==
    \A j \in DOMAIN res :
        res[j].st = "ok" =>
            \A k \in DOMAIN res[j].val :
                LET d == res[j].val[k]
                    srcs == SourcesOf(d)
                    out == fs.out[d]
                IN /\ Len(out) = SumN(srcs)
                   /\ out = Flatten([m \in DOMAIN srcs |->
                                [i \in 1..srcs[m].n |-> <<srcs[m].src[2], i - 1>>]])
                   /\ (\A m, q \in DOMAIN srcs : srcs[m].src[2] = srcs[q].src[2] => m = q)
                          => Cardinality(Range(out)) = Len(out)

\* a returned destination file merged from two source files of different sizes
C8_Witness ==
    \E j \in DOMAIN res :
        /\ res[j].st = "ok"
        /\ \E k \in DOMAIN res[j].val :
              LET srcs == SourcesOf(res[j].val[k])
              IN Len(srcs) = 2 /\ srcs[1].n # srcs[2].n /\ srcs[1].src[2] # srcs[2].src[2]

(* C9: a record of the short-read family returns its files only if the files
   of the mode exist: it carries the two mate files exactly when the run is
   paired, the single file exactly when it is not. *)
C9_OutputsOfTheMode ==
    (Started /\ Call.family = "illumina") =>
        \A i \in DOMAIN fq_files :
            fq_files[i].st = "ok" =>
                (Len(fq_files[i].val) = 3 <=> "--paired" \in DOMAIN Call.params)

DestOf(sample, mate) ==
    <<Call.family, sample, mate, IF Call.family = "nanopore" THEN ".fa" ELSE ".fq">>
        \o (IF Call.gzip_out THEN <<".gz">> ELSE <<>>)

(* C10: after a successful first call every community of the list has its R1 file
   under <family>/<community>, an R2 file exactly when the run is paired, and
   each of them was merged from the files of exactly the records of that
   community, each once. *)
C10_OneFilePerSample ==
    (ncall = 1 /\ pc = "done") =>
        \A c \in {sample_taxon[i][1] : i \in DOMAIN sample_taxon} :
            LET mine == {i \in DOMAIN fq_files : fq_files[i].val[1] = c}
                paired == Call.family = "illumina" /\ "--paired" \in DOMAIN Call.params
                merged(m, pos) ==
                    /\ DestOf(c, m) \in DOMAIN fs.out
                    /\ \A i \in mine :
                          /\ Len(fq_files[i].val) >= pos
                          /\ Cardinality({e \in DOMAIN fs.log :
                                 /\ fs.log[e].dest = DestOf(c, m)
                                 /\ fs.log[e].src = fq_files[i].val[pos]}) = 1
                    /\ Cardinality({e \in DOMAIN fs.log : fs.log[e].dest = DestOf(c, m)})
                          = Cardinality(mine)
            IN /\ merged("R1", 2)
               /\ DestOf(c, "R2") \in DOMAIN fs.out <=> paired
               /\ paired => merged("R2", 3)

\* every dispatch task and every merge task of the call has returned
AllReturned ==
    /\ MapDone
    /\ \A i \in DOMAIN fq_files : fq_files[i].st = "ok"
    /\ Range(comms) = {sample_taxon[i][1] : i \in DOMAIN sample_taxon}
    /\ DOMAIN res = DOMAIN comms
    /\ \A j \in DOMAIN res : res[j].st = "ok"

(* C11: a source file of a merge is removed only after each of its records has
   been written to the destination file of that merge; and in a call that got
   as far as its tasks, the scratch tree is absent only when the call is done,
   every dispatch task and the merge of every sample having returned, so never
   while a task is pending or running. *)
C11_DeleteAfterWritten ==
    /\ \A p \in DOMAIN fs.ops :
          fs.ops[p].op = "remove" =>
              \E e \in DOMAIN fs.log :
                  /\ fs.log[e].src = fs.ops[p].file
                  /\ \A i \in 0..(fs.log[e].n - 1) :
                        \E q \in 1..(p - 1) :
                            fs.ops[q] = [op |-> "write", file |-> fs.log[e].dest,
                                         rec |-> <<taxon_of_path(fs.log[e].src), i>>]
    /\ (Started /\ (exc = None \/ spawned # {}) /\ <<"tmp">> \notin fs.dirs)
          => pc = "done" /\ AllReturned

\* a call that merged two samples, one of them from a file of two records,
\* and then removed the scratch tree
C11_Witness ==
    /\ pc = "done"
    /\ <<"tmp">> \notin fs.dirs
    /\ Len(res) = 2
    /\ \E p \in DOMAIN fs.ops, e \in DOMAIN fs.log :
          /\ fs.ops[p].op = "remove"
          /\ fs.log[e].src = fs.ops[p].file
          /\ fs.log[e].n = 2

\* the tables list each genome once and each (sample, taxon) abundance once
DistinctRows ==
    /\ \A i, j \in DOMAIN genome_table :
          genome_table[i].Fasta = genome_table[j].Fasta => i = j
    /\ \A i, j \in DOMAIN abund_table :
          (/\ abund_table[i].Community = abund_table[j].Community
           /\ abund_table[i].Taxon = abund_table[j].Taxon) => i = j

(* C12: for tables of distinct genomes and distinct abundance rows, no two
   dispatch tasks of a call are given the same scratch directory and output
   prefix, and no two merge tasks the same sample, hence the same per-mate
   destination files. *)
C12_NoSharedWrites ==
    (Started /\ DistinctRows) =>
        /\ \A s, t \in spawned : s.task # t.task => s.out # t.out
        /\ \A j, k \in DOMAIN comms :
              j # k => \A m \in {"R1", "R2"} : DestOf(comms[j], m) # DestOf(comms[k], m)

====
